---- MODULE Spec2Model ----
(***************************************************************************)
(* VisionFit backend (src/main.py, src/schemas.py): signup, API keys,      *)
(* products and try-on sessions over a document store.                     *)
(*                                                                         *)
(* Every endpoint is a synchronous `def` handler, which FastAPI runs on a  *)
(* thread pool: handlers of different requests interleave between their    *)
(* document-store operations.  A request occupies a slot of Reqs and moves *)
(* through the program points of its handler; one action is one atomic     *)
(* document-store operation (or the blocking upstream call) together with  *)
(* the local computation that follows it.                                  *)
(*                                                                         *)
(* A collection is a sequence of documents; the document at index i has    *)
(* _id i.  An id string is [valid |-> TRUE, n |-> i] (the 24 hex digits of *)
(* ObjectId i) or BadIdStr (a string ObjectId() rejects).                  *)
(***************************************************************************)
EXTENDS Integers, Sequences, FiniteSets, TLC

\* ---------------------------------------------------------------- bounds
NumReqs == 2          \* request slots: handlers in flight at once
MaxSignups == 2       \* organizations created in a behaviour
MaxProducts == 1      \* products created in a behaviour
MaxSessions == 2      \* try-on sessions created in a behaviour
MaxKeys == 2          \* apikey records, stored or due, up to which keys are created
MaxClock == 2         \* clock ticks in a behaviour

Reqs == 1..NumReqs

\* ------------------------------------------------------- program constants
MSG_LIMIT == 200            \* str(e)[:200] in the persisted record
DETAIL_LIMIT == 160         \* str(e)[:160] in the 502 detail
FAL_TEXT_LIMIT == 120       \* resp.text[:120] in the FAL error
HTTP_OK == 200
JWT_EXP_MIN == 1440         \* token lifetime in minutes
\* minutes that pass in one tick of the clock
ClockStep == 1000

None == "None"
EMPTY == ""
DEMO_URL == "https://images.unsplash.com/photo-1518544801976-3e188ae8e8d1"
FAL_URL == "https://fal.example/result.png"

\* ------------------------------------------------------------ id strings
IdStr(i) == [valid |-> TRUE, n |-> i]
BadIdStr == [valid |-> FALSE, n |-> 0]
NoId == [valid |-> FALSE, n |-> -1]

\* oid(): ObjectId(id_str), or HTTP 400 "Invalid id" when it does not parse.
oidOk(s) == s.valid
oid(s) == s.n

\* ------------------------------------------------------------- strings
\* A message is modelled by its text tag and its length in characters.
Str(tag, len) == [tag |-> tag, len |-> len]
NoMsg == Str(None, 0)
Min(a, b) == IF a <= b THEN a ELSE b
\* s[:n]
Truncate(s, n) == Str(s.tag, Min(s.len, n))
\* prefix + s
Prepend(plen, s) == Str(s.tag, plen + s.len)

\* ------------------------------------------------------------- inputs
Emails == {"a@x.io", "b@x.io"}
UserNames == {"Ann"}
Passwords == {"pw1"}
\* organization_name values, as sequences of characters
OrgNames == {<<"A">>, <<" ", "a">>, <<"a", " ", "b">>}
\* CreateSessionBody.mode (Optional[str]) and .source_image_url (Optional[str]):
\* the defaults, a valid pair, a mode outside the schema, a string that is no URL
Bodies ==
  {[mode |-> None, source_image_url |-> None],
   [mode |-> "head", source_image_url |-> "https://img.example/me.png"],
   [mode |-> "tilt", source_image_url |-> None],
   [mode |-> EMPTY, source_image_url |-> "not a url"]}
UNKNOWN_KEY == "vf_unknown"

\* ----------------------------------------------------------- variables
VARIABLES
  env,            \* process environment: FAL_LIVE, FAL_KEY, TRYON_REQUIRE_API_KEY
  organization,   \* db["organization"]
  user,           \* db["user"]
  apikey,         \* db["apikey"]
  product,        \* db["product"]
  tryonsession,   \* db["tryonsession"]
  tokens,         \* bearer tokens issued so far (held by clients)
  now,            \* datetime.now(timezone.utc), in minutes since start
  req             \* per slot: the handler running there, its locals, its response

vars == <<env, organization, user, apikey, product, tryonsession, tokens, now, req>>
store == <<organization, user, apikey, product, tryonsession>>

\* ------------------------------------------------------ string functions
\* str.lower() on one character
LowerChar(c) == IF c = "A" THEN "a" ELSE IF c = "B" THEN "b" ELSE c
Lower(s) == [i \in 1..Len(s) |-> LowerChar(s[i])]

RECURSIVE LStrip(_)
LStrip(s) == IF s # <<>> /\ Head(s) = " " THEN LStrip(Tail(s)) ELSE s
RECURSIVE RStrip(_)
RStrip(s) ==
  IF s # <<>> /\ s[Len(s)] = " " THEN RStrip(SubSeq(s, 1, Len(s) - 1)) ELSE s
\* str.strip()
Strip(s) == RStrip(LStrip(s))
\* str.replace(" ", "-")
ReplaceSpaces(s) == [i \in 1..Len(s) |-> IF s[i] = " " THEN "-" ELSE s[i]]
\* slug = body.organization_name.lower().strip().replace(" ", "-")
Slug(name) == ReplaceSpaces(Strip(Lower(name)))

\* ------------------------------------------------------------- schemas
\* OrganizationSchema(name=, slug=, plan='free')
OrganizationSchema(name, slug) == [name |-> name, slug |-> slug, plan |-> "free"]
\* pwd_context.hash / verify: a one-way hash, verified deterministically
HashPassword(pw) == <<"bcrypt", pw>>
VerifyPassword(pw, hash) == hash = <<"bcrypt", pw>>
\* UserSchema(...)
UserSchema(name, email, password_hash, organization_id, role) ==
  [name |-> name, email |-> email, password_hash |-> password_hash,
   organization_id |-> organization_id, role |-> role]
DefaultScopes == {"tryon:read", "tryon:write"}
\* ApiKeySchema(...): scopes and active default
ApiKeySchema(organization_id, label, key) ==
  [organization_id |-> organization_id, label |-> label, key |-> key,
   scopes |-> DefaultScopes, active |-> TRUE, updated_at |-> None]
\* ProductSchema: type defaults to 'eyewear'
ProductSchema(title) ==
  [title |-> title, sku |-> None, type |-> "eyewear", model_url |-> None,
   thumbnail_url |-> None]
\* TryOnSessionSchema validation: mode is Literal['face','head'],
\* source_image_url is Optional[HttpUrl]
ModeValid(m) == m \in {"face", "head"}
UrlValid(u) == u = None \/ u = "https://img.example/me.png"
TryOnSessionSchema(product_id, mode, source_image_url, status) ==
  [product_id |-> product_id, mode |-> mode, source_image_url |-> source_image_url,
   status |-> status, result_url |-> None, message |-> NoMsg]

\* secrets.token_urlsafe: the n-th secret drawn, distinct from all others
RawKey(n) == "vf_" \o ToString(n)

\* ------------------------------------------------------------- tokens
\* create_token(): the claims, the expiry JWT_EXP_MIN minutes from now, signed
create_token(sub, org, role) ==
  [sub |-> sub, org |-> org, role |-> role, exp |-> now + JWT_EXP_MIN, sig |-> "ok"]
\* a token that jwt.decode rejects (bad signature or malformed)
ForgedToken ==
  [sub |-> IdStr(1), org |-> IdStr(1), role |-> "admin", exp |-> JWT_EXP_MIN,
   sig |-> "forged"]
\* jwt.decode raises ExpiredSignatureError
Expired(token) == token.exp <= now
NoAuth == [scheme |-> "none", token |-> ForgedToken]
BasicAuth == [scheme |-> "basic", token |-> ForgedToken]
Bearer(t) == [scheme |-> "bearer", token |-> t]

\* get_current_user(): the user document's index (uid), or the 401 it raises
AuthFailed(detail) == [code |-> 401, detail |-> detail, uid |-> 0]
get_current_user(authorization) ==
  IF authorization.scheme # "bearer"
  THEN AuthFailed(Str("Missing bearer token", 20))
  ELSE IF authorization.token.sig # "ok" \/ Expired(authorization.token)
  THEN AuthFailed(Str("Invalid token", 13))
  ELSE IF authorization.token.sub = NoId THEN AuthFailed(Str("Invalid token", 13))
  ELSE IF ~oidOk(authorization.token.sub) THEN AuthFailed(Str("Invalid token", 13))
  ELSE IF oid(authorization.token.sub) \notin 1..Len(user)
  THEN AuthFailed(Str("Invalid token", 13))
  ELSE [code |-> 0, detail |-> NoMsg, uid |-> oid(authorization.token.sub)]

\* ----------------------------------------------------------- responses
NoToken == [sub |-> NoId, org |-> NoId, role |-> None, exp |-> 0, sig |-> None]
NoResp ==
  [code |-> 0, detail |-> NoMsg, id |-> NoId, status |-> None, result_url |-> None,
   message |-> NoMsg, access_token |-> NoToken,
   name |-> None, email |-> None, role |-> None, organization_id |-> NoId,
   key |-> None, items |-> <<>>, slug |-> <<>>, plan |-> None,
   collections |-> {}, fal_live |-> None]
\* raise HTTPException(status_code=code, detail=detail)
HTTPException(code, detail) == [NoResp EXCEPT !.code = code, !.detail = detail]

\* ApiKeyCreateBody.scopes, an Optional[list[str]]: None, or a list
NoScopes == [some |-> FALSE, val |-> {}]
Scopes(l) == [some |-> TRUE, val |-> l]

\* A slot with no request in it.
Idle ==
  [pc |-> "idle", op |-> None,
   \* request inputs
   product_id |-> NoId, mode |-> None, source_image_url |-> None, x_api_key |-> None,
   email |-> None, name |-> None, password |-> None, organization_name |-> <<>>,
   authorization |-> NoAuth, key_id |-> NoId, get_id |-> NoId,
   label |-> None, scopes |-> NoScopes,
   \* handler locals
   key_info |-> NoId, session_id |-> NoId, result_url |-> None, message |-> NoMsg,
   e |-> NoMsg, org_id |-> NoId, user_id |-> NoId, current_user |-> 0,
   \* requests.post calls made by the handler so far
   calls |-> 0,
   \* the response, once pc = "done"
   resp |-> NoResp]

Init ==
  /\ env \in [FAL_LIVE : BOOLEAN, FAL_KEY : BOOLEAN, TRYON_REQUIRE_API_KEY : BOOLEAN]
  /\ organization = <<>>
  /\ user = <<>>
  /\ apikey = <<>>
  /\ product = <<>>
  /\ tryonsession = <<>>
  /\ tokens = {}
  /\ now = 0
  /\ req = [r \in Reqs |-> Idle]

\* The handler of request q returns or raises: the slot holds the response, and of
\* the request only what identifies it (its locals are gone).
Done(q, resp) ==
  [Idle EXCEPT !.pc = "done", !.op = q.op, !.product_id = q.product_id,
               !.x_api_key = q.x_api_key, !.email = q.email, !.key_id = q.key_id,
               !.current_user = q.current_user, !.calls = q.calls, !.resp = resp]

\* The response has been sent: the slot is free again.
Reply(r) ==
  /\ req[r].pc = "done"
  /\ req' = [req EXCEPT ![r] = Idle]
  /\ UNCHANGED <<env, now, store, tokens>>

\* create_document(collection_name, data): the document store inserts the
\* document under a fresh id and returns the id as a string
create_document(collection, data) ==
  [docs |-> Append(collection, data), id |-> IdStr(Len(collection) + 1)]

\* ------------------------------------------------------------- signup
InFlight(pcs) == Cardinality({r \in Reqs : req[r].pc \in pcs})

\* db["user"].find_one({"email": email}) is not None
EmailRegistered(email) == \E i \in 1..Len(user) : user[i].email = email

\* Signup creating the organization before it checks the email
SignupOrgFirst(r, name, email, password, organization_name) ==
  /\ req[r].pc = "idle"
  /\ Len(organization) + InFlight({"signup_org"}) < MaxSignups
  /\ organization' = create_document(organization,
       OrganizationSchema(organization_name, Slug(organization_name))).docs
  /\ req' = [req EXCEPT ![r] =
       IF EmailRegistered(email)
       THEN Done([Idle EXCEPT !.op = "signup", !.email = email],
                 HTTPException(409, Str("Email already registered", 24)))
       ELSE [Idle EXCEPT !.pc = "signup_user", !.op = "signup", !.name = name,
                         !.email = email, !.password = password,
                         !.organization_name = organization_name,
                         !.org_id = IdStr(Len(organization) + 1)]]
  /\ UNCHANGED <<env, now, user, apikey, product, tryonsession, tokens>>

\* signup(), lines 113-116: the uniqueness check
Signup(r, name, email, password, organization_name) ==
  /\ req[r].pc = "idle"
  /\ Len(organization) + InFlight({"signup_org"}) < MaxSignups
  /\ req' = [req EXCEPT ![r] =
       IF EmailRegistered(email)
       THEN Done([Idle EXCEPT !.op = "signup", !.email = email],
                 HTTPException(409, Str("Email already registered", 24)))
       ELSE [Idle EXCEPT !.pc = "signup_org", !.op = "signup", !.name = name,
                         !.email = email, !.password = password,
                         !.organization_name = organization_name]]
  /\ UNCHANGED <<env, now, store, tokens>>

\* signup(), lines 117-120: create org
SignupOrg(r) ==
  LET slug == Slug(req[r].organization_name)
      ins == create_document(organization,
               OrganizationSchema(req[r].organization_name, slug)) IN
  /\ req[r].pc = "signup_org"
  /\ organization' = ins.docs
  /\ req' = [req EXCEPT ![r].pc = "signup_user", ![r].org_id = ins.id]
  /\ UNCHANGED <<env, now, user, apikey, product, tryonsession, tokens>>

\* SignupUser storing the user with role 'member'
SignupUserAsMember(r) ==
  LET ins == create_document(user,
               UserSchema(req[r].name, req[r].email, HashPassword(req[r].password),
                          req[r].org_id, "member")) IN
  /\ req[r].pc = "signup_user"
  /\ user' = ins.docs
  /\ req' = [req EXCEPT ![r].pc = "signup_key", ![r].user_id = ins.id]
  /\ UNCHANGED <<env, now, organization, apikey, product, tryonsession, tokens>>

\* signup(), lines 121-124: create user
SignupUser(r) ==
  LET ins == create_document(user,
               UserSchema(req[r].name, req[r].email, HashPassword(req[r].password),
                          req[r].org_id, "admin")) IN
  /\ req[r].pc = "signup_user"
  /\ user' = ins.docs
  /\ req' = [req EXCEPT ![r].pc = "signup_key", ![r].user_id = ins.id]
  /\ UNCHANGED <<env, now, organization, apikey, product, tryonsession, tokens>>

\* signup(), lines 125-131: bootstrap an API key, issue the token
SignupKey(r) ==
  LET token == create_token(req[r].user_id, req[r].org_id, "admin") IN
  /\ req[r].pc = "signup_key"
  /\ apikey' = create_document(apikey,
       ApiKeySchema(req[r].org_id, "Default Key", RawKey(Len(apikey) + 1))).docs
  /\ tokens' = tokens \cup {token}
  /\ req' = [req EXCEPT ![r] =
       Done(req[r], [NoResp EXCEPT !.code = HTTP_OK, !.access_token = token])]
  /\ UNCHANGED <<env, now, organization, user, product, tryonsession>>

\* ------------------------------------------------------------ products
\* create_product()
CreateProduct(title) ==
  /\ Len(product) < MaxProducts
  /\ product' = create_document(product, ProductSchema(title)).docs
  /\ UNCHANGED <<env, now, organization, user, apikey, tryonsession, tokens, req>>

\* ------------------------------------------------------------ API keys
\* Python truthiness of an Optional[str]: None and "" are falsy
Truthy(x) == x # None /\ x # EMPTY

\* the documents of apikey matching {"key": x_api_key, "active": True}
ActiveKeyMatches(x_api_key) ==
  {i \in 1..Len(apikey) : apikey[i].key = x_api_key /\ apikey[i].active}
First(S) == CHOOSE i \in S : \A j \in S : i <= j

\* validate_api_key with the filter {"key": x_api_key} alone
validate_api_key_any(x_api_key) ==
  LET m == {i \in 1..Len(apikey) : apikey[i].key = x_api_key} IN
  IF ~Truthy(x_api_key) THEN [code |-> 0, key_info |-> NoId]
  ELSE IF m = {} THEN [code |-> 401, key_info |-> NoId]
  ELSE [code |-> 0, key_info |-> IdStr(First(m))]

\* validate_api_key(): the key document's id (NoId for None), or the 401 it raises
validate_api_key(x_api_key) ==
  IF ~Truthy(x_api_key) THEN [code |-> 0, key_info |-> NoId]
  ELSE IF ActiveKeyMatches(x_api_key) = {} THEN [code |-> 401, key_info |-> NoId]
  ELSE [code |-> 0, key_info |-> IdStr(First(ActiveKeyMatches(x_api_key)))]

\* key_info = validate_api_key(x_api_key) if (x_api_key or require_key) else None
ResolveKey(x_api_key, require_key) ==
  IF Truthy(x_api_key) \/ require_key
  THEN validate_api_key(x_api_key)
  ELSE [code |-> 0, key_info |-> NoId]

\* revoke_api_key(), the Depends(get_current_user) part
RevokeApiKey(r, authorization, key_id) ==
  LET cu == get_current_user(authorization) IN
  /\ req[r].pc = "idle"
  /\ req' = [req EXCEPT ![r] =
       IF cu.code # 0
       THEN Done([Idle EXCEPT !.op = "revoke", !.key_id = key_id],
                 HTTPException(cu.code, cu.detail))
       ELSE [Idle EXCEPT !.pc = "revoke_update", !.op = "revoke",
                         !.authorization = authorization,
                         !.key_id = key_id, !.current_user = cu.uid]]
  /\ UNCHANGED <<env, now, store, tokens>>

\* OwnKeyMatches with the filter {"_id": id} alone
AnyOrgKeyMatches(id, org) == {i \in 1..Len(apikey) : i = id}

\* the documents of apikey matching {"_id": id, "organization_id": org}
OwnKeyMatches(id, org) ==
  {i \in 1..Len(apikey) : i = id /\ apikey[i].organization_id = org}

\* RevokeUpdate with an update that flips active instead of clearing it
RevokeUpdateToggling(r) ==
  LET org == user[req[r].current_user].organization_id
      m == IF oidOk(req[r].key_id) THEN OwnKeyMatches(oid(req[r].key_id), org) ELSE {} IN
  /\ req[r].pc = "revoke_update"
  /\ apikey' = [i \in 1..Len(apikey) |->
       IF m # {} /\ i = First(m)
       THEN [apikey[i] EXCEPT !.active = ~@, !.updated_at = "now"]
       ELSE apikey[i]]
  /\ req' = [req EXCEPT ![r] = Done(req[r],
       IF ~oidOk(req[r].key_id) THEN HTTPException(400, Str("Invalid id", 10))
       ELSE IF m = {} THEN HTTPException(404, Str("API key not found", 17))
       ELSE [NoResp EXCEPT !.code = HTTP_OK, !.status = "revoked"])]
  /\ UNCHANGED <<env, now, organization, user, product, tryonsession, tokens>>

\* revoke_api_key(), lines 194-197: update_one and its matched_count
RevokeUpdate(r) ==
  LET org == user[req[r].current_user].organization_id
      m == IF oidOk(req[r].key_id) THEN OwnKeyMatches(oid(req[r].key_id), org) ELSE {} IN
  /\ req[r].pc = "revoke_update"
  /\ apikey' = [i \in 1..Len(apikey) |->
       IF m # {} /\ i = First(m)
       THEN [apikey[i] EXCEPT !.active = FALSE, !.updated_at = "now"]
       ELSE apikey[i]]
  /\ req' = [req EXCEPT ![r] = Done(req[r],
       IF ~oidOk(req[r].key_id) THEN HTTPException(400, Str("Invalid id", 10))
       ELSE IF m = {} THEN HTTPException(404, Str("API key not found", 17))
       ELSE [NoResp EXCEPT !.code = HTTP_OK, !.status = "revoked"])]
  /\ UNCHANGED <<env, now, organization, user, product, tryonsession, tokens>>

\* ------------------------------------------------------ try-on sessions
\* create_tryon_session(), lines 241-243: validate the API key
CreateTryonSession(r, product_id, mode, source_image_url, x_api_key) ==
  LET require_key == env.TRYON_REQUIRE_API_KEY
      k == ResolveKey(x_api_key, require_key)
      body == [Idle EXCEPT !.op = "tryon", !.product_id = product_id, !.mode = mode,
                           !.source_image_url = source_image_url,
                           !.x_api_key = x_api_key] IN
  /\ req[r].pc = "idle"
  /\ Len(tryonsession) + InFlight({"tryon_product", "tryon_insert"}) < MaxSessions
  /\ req' = [req EXCEPT ![r] =
       IF k.code # 0
       THEN Done(body, HTTPException(k.code, Str("Invalid API key", 15)))
       ELSE [body EXCEPT !.pc = "tryon_product", !.key_info = k.key_info]]
  /\ UNCHANGED <<env, now, store, tokens>>

\* body.mode or "face"
ModeOrFace(mode) == IF Truthy(mode) THEN mode ELSE "face"

\* ProductLookup without the "if not prod" test
ProductLookupUnchecked(product_id, mode, source_image_url) ==
  IF ~oidOk(product_id) THEN HTTPException(400, Str("Invalid id", 10))
  ELSE IF ~(ModeValid(ModeOrFace(mode)) /\ UrlValid(source_image_url))
  THEN HTTPException(500, Str("Internal Server Error", 21))
  ELSE NoResp

\* create_tryon_session(), lines 245-255: the product lookup, then the session
\* schema (a pydantic ValidationError is an unhandled exception: HTTP 500)
ProductLookup(product_id, mode, source_image_url) ==
  IF ~oidOk(product_id) THEN HTTPException(400, Str("Invalid id", 10))
  ELSE IF oid(product_id) \notin 1..Len(product)
  THEN HTTPException(404, Str("Product not found", 17))
  ELSE IF ~(ModeValid(ModeOrFace(mode)) /\ UrlValid(source_image_url))
  THEN HTTPException(500, Str("Internal Server Error", 21))
  ELSE NoResp

\* TryonProduct going on to the insert without looking the product up
TryonProductUnchecked(r) ==
  /\ req[r].pc = "tryon_product"
  /\ req' = [req EXCEPT ![r].pc = "tryon_insert"]
  /\ UNCHANGED <<env, now, store, tokens>>

TryonProduct(r) ==
  LET res == ProductLookup(req[r].product_id, req[r].mode, req[r].source_image_url) IN
  /\ req[r].pc = "tryon_product"
  /\ req' = [req EXCEPT ![r] =
       IF res.code # 0 THEN Done(req[r], res) ELSE [@ EXCEPT !.pc = "tryon_insert"]]
  /\ UNCHANGED <<env, now, store, tokens>>

\* AfterInsert with the FAL_LIVE test inverted
AfterInsertInverted(q) ==
  IF env.FAL_LIVE
  THEN [q EXCEPT !.pc = "tryon_completed", !.result_url = DEMO_URL,
                 !.message = Str("sandbox demo (no credits used)", 30)]
  ELSE IF ~env.FAL_KEY
  THEN [q EXCEPT !.pc = "tryon_failed", !.e = Str("FAL_KEY not configured", 22)]
  ELSE [q EXCEPT !.pc = "tryon_upstream"]

\* AfterInsert with the FAL_KEY test made before the try block: the exception
\* is not caught, the request ends with 500
AfterInsertKeyTestUncaught(q) ==
  IF ~env.FAL_LIVE
  THEN [q EXCEPT !.pc = "tryon_completed", !.result_url = DEMO_URL,
                 !.message = Str("sandbox demo (no credits used)", 30)]
  ELSE IF ~env.FAL_KEY
  THEN Done(q, HTTPException(500, Str("Internal Server Error", 21)))
  ELSE [q EXCEPT !.pc = "tryon_upstream"]

\* create_tryon_session(), lines 256-268 and 292-295: insert the session, then
\* branch on FAL_LIVE (and, live, on FAL_KEY)
AfterInsert(q) ==
  IF ~env.FAL_LIVE
  THEN [q EXCEPT !.pc = "tryon_completed", !.result_url = DEMO_URL,
                 !.message = Str("sandbox demo (no credits used)", 30)]
  ELSE IF ~env.FAL_KEY
  THEN [q EXCEPT !.pc = "tryon_failed", !.e = Str("FAL_KEY not configured", 22)]
  ELSE [q EXCEPT !.pc = "tryon_upstream"]

TryonInsert(r) ==
  LET ins == create_document(tryonsession,
               TryOnSessionSchema(req[r].product_id, ModeOrFace(req[r].mode),
                                  req[r].source_image_url, "processing")) IN
  /\ req[r].pc = "tryon_insert"
  /\ tryonsession' = ins.docs
  /\ req' = [req EXCEPT ![r] = AfterInsert([req[r] EXCEPT !.session_id = ins.id])]
  /\ UNCHANGED <<env, now, organization, user, apikey, product, tokens>>

\* What requests.post / resp.json() can do: a 200 with a result_url, a 200 whose
\* payload has no result_url, a 200 whose body is not a JSON object, a non-200
\* status with a short or a long body, a transport error, a timeout.
UpstreamOutcomes ==
  {"ok", "ok_no_url", "bad_payload", "status_short", "status_long", "transport",
   "timeout"}

\* len(f"FAL error {resp.status_code}: {resp.text[:120]}")
FalError(text) == Prepend(15, Truncate(text, FAL_TEXT_LIMIT))

\* the exception the try block raises (NoMsg: none)
UpstreamError(outcome) ==
  CASE outcome = "bad_payload" -> Str("Expecting value: line 1 column 1 (char 0)", 41)
    [] outcome = "status_short" -> FalError(Str("FAL error 500", 0))
    [] outcome = "status_long" -> FalError(Str("FAL error 500", 300))
    [] outcome = "transport" -> Str("HTTPSConnectionPool: Max retries exceeded", 250)
    [] outcome = "timeout" -> Str("HTTPSConnectionPool: Read timed out.", 68)
    [] OTHER -> NoMsg

\* TryonUpstream calling the provider a second time when the first call fails
TryonUpstreamRetrying(r, outcome) ==
  /\ req[r].pc = "tryon_upstream"
  /\ req' = [req EXCEPT ![r] =
       IF UpstreamError(outcome) # NoMsg /\ req[r].calls = 0
       THEN [@ EXCEPT !.calls = @ + 1]
       ELSE IF UpstreamError(outcome) # NoMsg
       THEN [@ EXCEPT !.pc = "tryon_failed", !.calls = @ + 1,
                      !.e = UpstreamError(outcome)]
       ELSE [@ EXCEPT !.pc = "tryon_completed", !.calls = @ + 1,
                      !.result_url = IF outcome = "ok" THEN FAL_URL ELSE None,
                      !.message = Str("processed via FAL", 17)]]
  /\ UNCHANGED <<env, now, store, tokens>>

\* create_tryon_session(), lines 269-288: the upstream call
TryonUpstream(r, outcome) ==
  /\ req[r].pc = "tryon_upstream"
  /\ req' = [req EXCEPT ![r] =
       IF UpstreamError(outcome) # NoMsg
       THEN [@ EXCEPT !.pc = "tryon_failed", !.calls = @ + 1,
                      !.e = UpstreamError(outcome)]
       ELSE [@ EXCEPT !.pc = "tryon_completed", !.calls = @ + 1,
                      !.result_url = IF outcome = "ok" THEN FAL_URL ELSE None,
                      !.message = Str("processed via FAL", 17)]]
  /\ UNCHANGED <<env, now, store, tokens>>

\* UpdateSession with a filter that matches the session inserted last
UpdateSessionLatest(id, status, result_url, message) ==
  [i \in 1..Len(tryonsession) |->
     IF i = Len(tryonsession)
     THEN [tryonsession[i] EXCEPT !.status = status, !.result_url = result_url,
                                  !.message = message]
     ELSE tryonsession[i]]

\* db["tryonsession"].update_one({"_id": id}, {"$set": {status, result_url, message}})
UpdateSession(id, status, result_url, message) ==
  [i \in 1..Len(tryonsession) |->
     IF i = id
     THEN [tryonsession[i] EXCEPT !.status = status, !.result_url = result_url,
                                  !.message = message]
     ELSE tryonsession[i]]

\* TryonFailed raising the 502 without recording the failure
TryonFailedUnrecorded(r) ==
  /\ req[r].pc = "tryon_failed"
  /\ req' = [req EXCEPT ![r] =
       Done(req[r], HTTPException(502, Prepend(16, Truncate(req[r].e, DETAIL_LIMIT))))]
  /\ UNCHANGED <<env, now, store, tokens>>

\* TryonFailed without the raise: the handler falls through to the final update
TryonFailedFallsThrough(r) ==
  /\ req[r].pc = "tryon_failed"
  /\ tryonsession' = UpdateSession(oid(req[r].session_id), "failed",
       tryonsession[oid(req[r].session_id)].result_url,
       Truncate(req[r].e, MSG_LIMIT))
  /\ req' = [req EXCEPT ![r].pc = "tryon_completed", ![r].e = NoMsg]
  /\ UNCHANGED <<env, now, organization, user, apikey, product, tokens>>

\* create_tryon_session(), lines 289-291: record the failure, then raise 502
TryonFailed(r) ==
  /\ req[r].pc = "tryon_failed"
  /\ tryonsession' = UpdateSession(oid(req[r].session_id), "failed",
       tryonsession[oid(req[r].session_id)].result_url,
       Truncate(req[r].e, MSG_LIMIT))
  /\ req' = [req EXCEPT ![r] =
       Done(req[r], HTTPException(502, Prepend(16, Truncate(req[r].e, DETAIL_LIMIT))))]
  /\ UNCHANGED <<env, now, organization, user, apikey, product, tokens>>

\* TryonCompleted responding before the final update is made
TryonCompletedEarly(r) ==
  /\ req[r].pc = "tryon_completed"
  /\ req' = [req EXCEPT ![r] =
       Done(req[r], [NoResp EXCEPT !.code = HTTP_OK, !.id = req[r].session_id,
                                   !.status = "completed",
                                   !.result_url = req[r].result_url,
                                   !.message = req[r].message])]
  /\ UNCHANGED <<env, now, store, tokens>>

\* create_tryon_session(), lines 297-302: finalize and respond
TryonCompleted(r) ==
  /\ req[r].pc = "tryon_completed"
  /\ tryonsession' = UpdateSession(oid(req[r].session_id), "completed",
       req[r].result_url, req[r].message)
  /\ req' = [req EXCEPT ![r] =
       Done(req[r], [NoResp EXCEPT !.code = HTTP_OK, !.id = req[r].session_id,
                                   !.status = "completed",
                                   !.result_url = req[r].result_url,
                                   !.message = req[r].message])]
  /\ UNCHANGED <<env, now, organization, user, apikey, product, tokens>>

\* GetSession recording the fetch on the session it returns
GetSessionTouching(r, session_id) ==
  /\ req[r].pc = "idle"
  /\ req' = [req EXCEPT ![r] = [Idle EXCEPT !.pc = "done", !.op = "get_session",
       !.get_id = session_id, !.resp =
         IF ~oidOk(session_id) THEN HTTPException(400, Str("Invalid id", 10))
         ELSE IF oid(session_id) \notin 1..Len(tryonsession)
         THEN HTTPException(404, Str("Session not found", 17))
         ELSE [NoResp EXCEPT !.code = HTTP_OK, !.id = session_id,
                 !.status = tryonsession[oid(session_id)].status,
                 !.result_url = tryonsession[oid(session_id)].result_url,
                 !.message = tryonsession[oid(session_id)].message]]]
  /\ tryonsession' = [i \in 1..Len(tryonsession) |->
       IF oidOk(session_id) /\ i = oid(session_id)
       THEN [tryonsession[i] EXCEPT !.message = Str("fetched", 7)]
       ELSE tryonsession[i]]
  /\ UNCHANGED <<env, now, organization, user, apikey, product, tokens>>

\* get_session()
GetSession(r, session_id) ==
  /\ req[r].pc = "idle"
  /\ req' = [req EXCEPT ![r] = [Idle EXCEPT !.pc = "done", !.op = "get_session",
       !.get_id = session_id, !.resp =
         IF ~oidOk(session_id) THEN HTTPException(400, Str("Invalid id", 10))
         ELSE IF oid(session_id) \notin 1..Len(tryonsession)
         THEN HTTPException(404, Str("Session not found", 17))
         ELSE [NoResp EXCEPT !.code = HTTP_OK, !.id = session_id,
                 !.status = tryonsession[oid(session_id)].status,
                 !.result_url = tryonsession[oid(session_id)].result_url,
                 !.message = tryonsession[oid(session_id)].message]]]
  /\ UNCHANGED <<env, now, store, tokens>>

\* get_documents(collection_name, filter): the documents the filter matches, in
\* insertion order, each with its _id
\* a filter dict: none, or {field: value}
NoFilter == [field |-> None, value |-> NoId]
FilterMatches(doc, filter) == filter = NoFilter \/ doc[filter.field] = filter.value
RECURSIVE Matching(_, _, _)
Matching(collection, filter, i) ==
  IF i > Len(collection) THEN <<>>
  ELSE (IF FilterMatches(collection[i], filter)
        THEN <<[id |-> IdStr(i), doc |-> collection[i]]>>
        ELSE <<>>) \o Matching(collection, filter, i + 1)
get_documents(collection, filter) == Matching(collection, filter, 1)

\* list_sessions()
ListSessions(r) ==
  /\ req[r].pc = "idle"
  /\ req' = [req EXCEPT ![r] = Done([Idle EXCEPT !.op = "list_sessions"],
       [NoResp EXCEPT !.code = HTTP_OK, !.items = get_documents(tryonsession, NoFilter)])]
  /\ UNCHANGED <<env, now, store, tokens>>

\* list_products()
ListProducts(r) ==
  /\ req[r].pc = "idle"
  /\ req' = [req EXCEPT ![r] = Done([Idle EXCEPT !.op = "list_products"],
       [NoResp EXCEPT !.code = HTTP_OK, !.items = get_documents(product, NoFilter)])]
  /\ UNCHANGED <<env, now, store, tokens>>

\* get_product()
GetProduct(r, product_id) ==
  /\ req[r].pc = "idle"
  /\ req' = [req EXCEPT ![r] =
       Done([Idle EXCEPT !.op = "get_product", !.product_id = product_id],
         IF ~oidOk(product_id) THEN HTTPException(400, Str("Invalid id", 10))
         ELSE IF oid(product_id) \notin 1..Len(product)
         THEN HTTPException(404, Str("Product not found", 17))
         ELSE [NoResp EXCEPT !.code = HTTP_OK, !.id = product_id,
                 !.name = product[oid(product_id)].title])]
  /\ UNCHANGED <<env, now, store, tokens>>

\* root()
Root(r) ==
  /\ req[r].pc = "idle"
  /\ req' = [req EXCEPT ![r] = Done([Idle EXCEPT !.op = "root"],
       [NoResp EXCEPT !.code = HTTP_OK, !.name = "VisionFit Backend", !.status = "ok"])]
  /\ UNCHANGED <<env, now, store, tokens>>

\* db.list_collection_names(): a collection exists once a document was inserted
CollectionNames ==
  {c \in {"organization", "user", "apikey", "product", "tryonsession"} :
     \/ c = "organization" /\ organization # <<>>
     \/ c = "user" /\ user # <<>>
     \/ c = "apikey" /\ apikey # <<>>
     \/ c = "product" /\ product # <<>>
     \/ c = "tryonsession" /\ tryonsession # <<>>}

\* test_database()
TestDatabase(r) ==
  /\ req[r].pc = "idle"
  /\ req' = [req EXCEPT ![r] = Done([Idle EXCEPT !.op = "test"],
       [NoResp EXCEPT !.code = HTTP_OK, !.status = "Connected",
                      !.collections = CollectionNames,
                      !.fal_live = IF env.FAL_LIVE THEN "true" ELSE "false"])]
  /\ UNCHANGED <<env, now, store, tokens>>

\* ---------------------------------------------------------------- login
\* db["user"].find_one({"email": email}): the matching documents
EmailMatches(email) == {i \in 1..Len(user) : user[i].email = email}

\* login()
Login(r, email, password) ==
  LET m == EmailMatches(email)
      doc == user[First(m)]
      token == create_token(IdStr(First(m)), doc.organization_id, doc.role)
      q == [Idle EXCEPT !.op = "login", !.email = email, !.password = password] IN
  /\ req[r].pc = "idle"
  /\ IF m = {} \/ ~VerifyPassword(password, doc.password_hash)
     THEN /\ req' = [req EXCEPT ![r] =
               [Done(q, HTTPException(401, Str("Invalid credentials", 19)))
                  EXCEPT !.password = password]]
          /\ tokens' = tokens
     ELSE /\ req' = [req EXCEPT ![r] =
               [Done(q, [NoResp EXCEPT !.code = HTTP_OK, !.access_token = token])
                  EXCEPT !.password = password]]
          /\ tokens' = tokens \cup {token}
  /\ UNCHANGED <<env, now, store>>

\* ------------------------------------------------------------- /v1/me
\* me(): get_current_user, then the MeResponse
Me(r, authorization) ==
  LET cu == get_current_user(authorization)
      q == [Idle EXCEPT !.op = "me", !.authorization = authorization] IN
  /\ req[r].pc = "idle"
  /\ req' = [req EXCEPT ![r] =
       IF cu.code # 0
       THEN [Done(q, HTTPException(cu.code, cu.detail))
               EXCEPT !.authorization = authorization]
       ELSE [Done(q, [NoResp EXCEPT !.code = HTTP_OK, !.id = IdStr(cu.uid),
                        !.name = user[cu.uid].name, !.email = user[cu.uid].email,
                        !.role = user[cu.uid].role,
                        !.organization_id = user[cu.uid].organization_id])
               EXCEPT !.authorization = authorization]]
  /\ UNCHANGED <<env, now, store, tokens>>

\* ------------------------------------------------------ /v1/org endpoints
\* the Depends(get_current_user) part of get_org, list_api_keys, create_api_key:
\* the handler goes on with the user document's organization_id
Authenticate(r, op, pc, authorization, q) ==
  LET cu == get_current_user(authorization) IN
  /\ req[r].pc = "idle"
  /\ req' = [req EXCEPT ![r] =
       IF cu.code # 0
       THEN Done([q EXCEPT !.op = op], HTTPException(cu.code, cu.detail))
       ELSE [q EXCEPT !.pc = pc, !.op = op, !.authorization = authorization,
                      !.current_user = cu.uid,
                      !.org_id = user[cu.uid].organization_id]]
  /\ UNCHANGED <<env, now, store, tokens>>

GetOrg(r, authorization) == Authenticate(r, "get_org", "org_find", authorization, Idle)

\* get_org(), lines 166-170
OrgFind(r) ==
  /\ req[r].pc = "org_find"
  /\ req' = [req EXCEPT ![r] = Done(req[r],
       IF ~oidOk(req[r].org_id) THEN HTTPException(400, Str("Invalid id", 10))
       ELSE IF oid(req[r].org_id) \notin 1..Len(organization)
       THEN HTTPException(404, Str("Organization not found", 22))
       ELSE [NoResp EXCEPT !.code = HTTP_OK, !.id = req[r].org_id,
               !.name = organization[oid(req[r].org_id)].name,
               !.slug = organization[oid(req[r].org_id)].slug,
               !.plan = organization[oid(req[r].org_id)].plan])]
  /\ UNCHANGED <<env, now, store, tokens>>

ListApiKeys(r, authorization) ==
  Authenticate(r, "list_api_keys", "apikey_list", authorization, Idle)

\* list_api_keys(), lines 174-177
ApiKeyList(r) ==
  LET OfOrg == [field |-> "organization_id", value |-> req[r].org_id] IN
  /\ req[r].pc = "apikey_list"
  /\ req' = [req EXCEPT ![r] = Done(req[r],
       [NoResp EXCEPT !.code = HTTP_OK, !.items = get_documents(apikey, OfOrg)])]
  /\ UNCHANGED <<env, now, store, tokens>>

\* ApiKeyCreateBody.scopes: absent, an empty list, one scope
ScopeInputs == {NoScopes, Scopes({}), Scopes({"tryon:read"})}
\* the documents create_api_key and signup may still insert into apikey
KeysInFlight == InFlight({"apikey_insert", "signup_org", "signup_user", "signup_key"})

CreateApiKey(r, authorization, label, scopes) ==
  /\ Len(apikey) + KeysInFlight < MaxKeys
  /\ Authenticate(r, "create_api_key", "apikey_insert", authorization,
                  [Idle EXCEPT !.label = label, !.scopes = scopes])

\* create_api_key(), lines 181-190
ApiKeyInsert(r) ==
  LET raw_key == RawKey(Len(apikey) + 1)
      \* body.scopes or ['tryon:read','tryon:write']
      scopes == IF req[r].scopes.some /\ req[r].scopes.val # {}
                THEN req[r].scopes.val ELSE DefaultScopes
      ins == create_document(apikey,
               [ApiKeySchema(req[r].org_id, req[r].label, raw_key)
                  EXCEPT !.scopes = scopes, !.active = TRUE]) IN
  /\ req[r].pc = "apikey_insert"
  /\ apikey' = ins.docs
  /\ req' = [req EXCEPT ![r] =
       Done(req[r], [NoResp EXCEPT !.code = HTTP_OK, !.id = ins.id, !.key = raw_key])]
  /\ UNCHANGED <<env, now, organization, user, product, tryonsession, tokens>>

\* ---------------------------------------------------------------- clock
\* time passes
Tick ==
  /\ now < MaxClock * ClockStep
  /\ now' = now + ClockStep
  /\ UNCHANGED <<env, store, tokens, req>>

\* ------------------------------------------------------- request inputs
\* id strings a client can send for a collection of n documents: every
\* existing id, one well-formed id of no document, one unparseable string
IdInputs(n) == {IdStr(i) : i \in 1..(n + 1)} \cup {BadIdStr}
\* x-api-key headers: absent, empty, every key issued, one never issued
KeyInputs == {None, EMPTY, UNKNOWN_KEY} \cup {apikey[i].key : i \in 1..Len(apikey)}
\* tokens that verify under JWT_SECRET but were not issued here (the secret has a
\* public default): without a subject, with a subject that is no ObjectId, with
\* the id of no stored user
SignedToken(sub) ==
  [sub |-> sub, org |-> IdStr(1), role |-> "admin",
   exp |-> MaxClock * ClockStep + JWT_EXP_MIN, sig |-> "ok"]
StrayTokens == {SignedToken(NoId), SignedToken(BadIdStr), SignedToken(IdStr(Len(user) + 1))}
\* Authorization headers: absent, not a bearer, a forged token, a stray token,
\* every issued token
AuthInputs ==
  {NoAuth, BasicAuth, Bearer(ForgedToken)} \cup {Bearer(t) : t \in StrayTokens \cup tokens}

SignupSteps ==
  \/ \E r \in Reqs, name \in UserNames, email \in Emails, password \in Passwords,
        organization_name \in OrgNames :
       Signup(r, name, email, password, organization_name)
  \/ \E r \in Reqs : SignupOrg(r)
  \/ \E r \in Reqs : SignupUser(r)
  \/ \E r \in Reqs : SignupKey(r)

RevokeSteps ==
  \/ \E r \in Reqs, authorization \in AuthInputs, key_id \in IdInputs(Len(apikey)) :
       RevokeApiKey(r, authorization, key_id)
  \/ \E r \in Reqs : RevokeUpdate(r)

TryonEntry ==
  \/ \E r \in Reqs, product_id \in IdInputs(Len(product)), body \in Bodies,
        x_api_key \in KeyInputs :
       CreateTryonSession(r, product_id, body.mode, body.source_image_url, x_api_key)
  \/ \E r \in Reqs : TryonProduct(r)

TryonRun ==
  \/ CreateProduct("Aviator")
  \/ \E r \in Reqs : TryonInsert(r)
  \/ \E r \in Reqs, outcome \in UpstreamOutcomes : TryonUpstream(r, outcome)
  \/ \E r \in Reqs : TryonFailed(r)
  \/ \E r \in Reqs : TryonCompleted(r)
  \/ \E r \in Reqs, session_id \in IdInputs(Len(tryonsession)) : GetSession(r, session_id)

Replies == \E r \in Reqs : Reply(r)

\* LoginBody: every email and password a signup may use, an email and a password
\* none uses
LoginEmails == Emails \cup {"c@x.io"}
LoginPasswords == Passwords \cup {"pw2"}
LoginSteps ==
  \E r \in Reqs, email \in LoginEmails, password \in LoginPasswords :
    Login(r, email, password)

MeSteps == \E r \in Reqs, authorization \in AuthInputs : Me(r, authorization)

OrgSteps ==
  \/ \E r \in Reqs, authorization \in AuthInputs : GetOrg(r, authorization)
  \/ \E r \in Reqs : OrgFind(r)

ApiKeySteps ==
  \/ \E r \in Reqs, authorization \in AuthInputs : ListApiKeys(r, authorization)
  \/ \E r \in Reqs : ApiKeyList(r)
  \/ \E r \in Reqs, authorization \in AuthInputs, scopes \in ScopeInputs :
       CreateApiKey(r, authorization, "ci", scopes)
  \/ \E r \in Reqs : ApiKeyInsert(r)

CatalogueReads ==
  \/ \E r \in Reqs : ListProducts(r)
  \/ \E r \in Reqs, product_id \in IdInputs(Len(product)) : GetProduct(r, product_id)
  \/ \E r \in Reqs : ListSessions(r)
  \/ \E r \in Reqs : Root(r)
  \/ \E r \in Reqs : TestDatabase(r)

\* Every endpoint, any interleaving, and the clock.
Next ==
  \/ SignupSteps \/ LoginSteps \/ MeSteps \/ OrgSteps \/ ApiKeySteps \/ RevokeSteps
  \/ TryonEntry \/ TryonRun \/ CatalogueReads \/ Replies \/ Tick

Spec == Init /\ [][Next]_vars

\* The catalogue and the try-on endpoints alone (no account exists, so every
\* request is anonymous or carries a key of no record).
SpecSessions == Init /\ [][TryonEntry \/ TryonRun \/ Replies]_vars

\* Concurrent signups alone, in the default deployment (no environment variable
\* set; signup reads none of them).
InitDefault ==
  Init /\ env = [FAL_LIVE |-> FALSE, FAL_KEY |-> FALSE, TRYON_REQUIRE_API_KEY |-> FALSE]
SpecSignup == InitDefault /\ [][SignupSteps \/ Replies]_vars

\* Accounts, key revocation and the API-key check of try-on requests, in the
\* default sandbox deployment with an empty catalogue; every organization is
\* named "A".
InitKeys == Init /\ ~env.FAL_LIVE /\ ~env.FAL_KEY
SignupStepsA ==
  \/ \E r \in Reqs, email \in Emails : Signup(r, "Ann", email, "pw1", <<"A">>)
  \/ \E r \in Reqs : SignupOrg(r)
  \/ \E r \in Reqs : SignupUser(r)
  \/ \E r \in Reqs : SignupKey(r)
SpecKeys == InitKeys /\ [][SignupStepsA \/ RevokeSteps \/ TryonEntry \/ Replies]_vars

\* Accounts and the bearer-token path as time passes: signup, login and /v1/me in
\* the default deployment; every organization is named "A".
SpecAccounts ==
  InitDefault /\ [][SignupStepsA \/ LoginSteps \/ MeSteps \/ Replies \/ Tick]_vars

\* The store after one signup (organization "A", at time 0) and one product, the
\* responses sent: the state reads and try-on requests start from below.
InitSeeded ==
  /\ env \in [FAL_LIVE : BOOLEAN, FAL_KEY : {TRUE}, TRYON_REQUIRE_API_KEY : {FALSE}]
  /\ organization = <<OrganizationSchema(<<"A">>, Slug(<<"A">>))>>
  /\ user = <<UserSchema("Ann", "a@x.io", HashPassword("pw1"), IdStr(1), "admin")>>
  /\ apikey = <<ApiKeySchema(IdStr(1), "Default Key", RawKey(1))>>
  /\ product = <<ProductSchema("Aviator")>>
  /\ tryonsession = <<>>
  /\ tokens = {[sub |-> IdStr(1), org |-> IdStr(1), role |-> "admin",
                exp |-> JWT_EXP_MIN, sig |-> "ok"]}
  /\ now = 0
  /\ req = [r \in Reqs |-> Idle]

\* try-on requests without an API key and with the default body
TryonEntryPlain ==
  \/ \E r \in Reqs, product_id \in IdInputs(Len(product)) :
       CreateTryonSession(r, product_id, None, None, None)
  \/ \E r \in Reqs : TryonProduct(r)

TryonFinish ==
  \/ \E r \in Reqs : TryonInsert(r)
  \/ \E r \in Reqs, outcome \in UpstreamOutcomes : TryonUpstream(r, outcome)
  \/ \E r \in Reqs : TryonFailed(r)
  \/ \E r \in Reqs : TryonCompleted(r)

AccountReads ==
  \/ MeSteps
  \/ OrgSteps
  \/ \E r \in Reqs, authorization \in AuthInputs : ListApiKeys(r, authorization)
  \/ \E r \in Reqs : ApiKeyList(r)

SessionReads ==
  \E r \in Reqs, session_id \in IdInputs(Len(tryonsession)) : GetSession(r, session_id)

\* Every GET endpoint against try-on requests in flight, sandbox or live.
SpecReads ==
  InitSeeded /\ [][TryonEntryPlain \/ TryonFinish \/ SessionReads \/ CatalogueReads
                    \/ AccountReads \/ Replies]_vars

\* Try-on requests without an API key and with the default body, in all 8
\* environments; every handler that has inserted a session goes on running: its
\* thread is scheduled until the handler returns, and requests.post returns or
\* raises within its timeout.
SpecLifecycleFair ==
  /\ Init
  /\ [][CreateProduct("Aviator") \/ TryonEntryPlain \/ TryonFinish \/ Replies]_vars
  /\ \A r \in Reqs :
       /\ WF_vars(\E outcome \in UpstreamOutcomes : TryonUpstream(r, outcome))
       /\ WF_vars(TryonFailed(r))
       /\ WF_vars(TryonCompleted(r))

\* Concurrent try-on requests over a catalogue of two products, in all 8
\* environments.
InitCatalogue ==
  /\ env \in [FAL_LIVE : BOOLEAN, FAL_KEY : BOOLEAN, TRYON_REQUIRE_API_KEY : BOOLEAN]
  /\ organization = <<>>
  /\ user = <<>>
  /\ apikey = <<>>
  /\ product = <<ProductSchema("Aviator"), ProductSchema("Wayfarer")>>
  /\ tryonsession = <<>>
  /\ tokens = {}
  /\ now = 0
  /\ req = [r \in Reqs |-> Idle]
SpecConcurrent == InitCatalogue /\ [][TryonEntryPlain \/ TryonFinish \/ Replies]_vars

\* Every writer of the apikey collection in the default deployment: signups
\* (every organization named "A"), key creation and revocation.
ApiKeyWrites ==
  \/ \E r \in Reqs, authorization \in AuthInputs, scopes \in ScopeInputs :
       CreateApiKey(r, authorization, "ci", scopes)
  \/ \E r \in Reqs : ApiKeyInsert(r)
SpecKeyAdmin ==
  InitDefault /\ [][SignupStepsA \/ ApiKeyWrites \/ RevokeSteps \/ Replies]_vars

\* Every writer of the store in the default (sandbox) deployment: signups, key
\* creation and revocation, the catalogue, try-on requests.
SpecWrites ==
  InitDefault /\ [][SignupStepsA \/ ApiKeyWrites \/ RevokeSteps
                     \/ CreateProduct("Aviator") \/ TryonEntryPlain
                     \/ (\E r \in Reqs : TryonInsert(r))
                     \/ (\E r \in Reqs : TryonCompleted(r))
                     \/ Replies]_vars

\* ======================================================================
\* Claims
\* ======================================================================
ProductExists(product_id) == oidOk(product_id) /\ oid(product_id) \in 1..Len(product)
BodyValid(q) == ModeValid(ModeOrFace(q.mode)) /\ UrlValid(q.source_image_url)
\* slot r takes a step
Steps(r) == req'[r] # req[r]
\* the handler in slot r returns or raises in this step
Ends(r, op) == req[r].pc # "done" /\ req'[r].pc = "done" /\ req'[r].op = op
Terminal == {"completed", "failed"}

\* ---- C1 ----
\* C1 as stated: in sandbox mode every try-on request whose product id references
\* an existing Product ends with 200, status=completed and the demo result_url.
C1_SandboxAlwaysCompletes ==
  [][~env.FAL_LIVE =>
       \A r \in Reqs :
         (Ends(r, "tryon") /\ ProductExists(req'[r].product_id)) =>
           /\ req'[r].resp.code = HTTP_OK
           /\ req'[r].resp.status = "completed"
           /\ req'[r].resp.result_url = DEMO_URL]_vars

C1_Step(r) ==
  /\ (req[r].pc = "tryon_product" /\ Steps(r) /\ ProductExists(req[r].product_id)
        /\ BodyValid(req[r])) =>
       req'[r].pc = "tryon_insert"
  /\ (req[r].pc = "tryon_insert" /\ Steps(r)) =>
       /\ req'[r].pc = "tryon_completed"
       /\ req'[r].result_url = DEMO_URL
  /\ (req[r].pc = "tryon_completed" /\ Steps(r)) =>
       /\ req'[r].pc = "done"
       /\ req'[r].resp.code = HTTP_OK
       /\ req'[r].resp.status = "completed"
       /\ req'[r].resp.result_url = DEMO_URL
       /\ req'[r].resp.id = req[r].session_id
       /\ tryonsession'[oid(req[r].session_id)].status = "completed"
       /\ tryonsession'[oid(req[r].session_id)].result_url = DEMO_URL

C1_State ==
  /\ \A r \in Reqs :
       /\ req[r].pc \notin {"tryon_upstream", "tryon_failed"}
       /\ req[r].pc = "tryon_product" => ENABLED TryonProduct(r)
       /\ req[r].pc = "tryon_insert" => ENABLED TryonInsert(r)
       /\ req[r].pc = "tryon_completed" => ENABLED TryonCompleted(r)
  /\ \A i \in 1..Len(tryonsession) :
       \/ /\ tryonsession[i].status = "completed"
          /\ tryonsession[i].result_url = DEMO_URL
       \/ /\ tryonsession[i].status = "processing"
          /\ \E r \in Reqs : /\ req[r].pc = "tryon_completed"
                             /\ req[r].session_id = IdStr(i)

\* C1, amended: in sandbox mode a try-on request that passes the API-key check,
\* whose product id references an existing Product at the lookup and whose body
\* fits the session schema goes on, without blocking, to insert a session and to
\* end with 200, status=completed and the demo result_url, the stored session
\* holding the same; no request reaches the upstream call or the failure path, and
\* a session is in processing only while its own request is about to complete it.
C1_SandboxCompletes ==
  /\ [](~env.FAL_LIVE => C1_State)
  /\ [][~env.FAL_LIVE => \A r \in Reqs : C1_Step(r)]_vars

C1_Witness ==
  /\ ~env.FAL_LIVE
  /\ \E r \in Reqs :
       /\ req[r].pc = "done" /\ req[r].op = "tryon"
       /\ req[r].resp.code = HTTP_OK /\ req[r].resp.result_url = DEMO_URL
       /\ tryonsession[oid(req[r].resp.id)].status = "completed"

\* ---- C2 ----
\* C2 as stated: a try-on request whose product id references no stored Product
\* fails with 404 and leaves the tryonsession collection unchanged.
C2_MissingProductIs404 ==
  [][\A r \in Reqs :
       (req[r].pc = "tryon_product" /\ Steps(r)
          /\ ~ProductExists(req[r].product_id)) =>
         /\ req'[r].pc = "done"
         /\ req'[r].resp.code = 404
         /\ tryonsession' = tryonsession]_vars

\* C2, amended: a try-on request that passed the API-key check and whose product
\* id references no stored Product at the lookup fails there, with 404 when the id
\* is well-formed and with 400 (Invalid id) when it does not parse, and the step
\* leaves the whole store unchanged; a request rejected at the key check (401)
\* leaves it unchanged too.
C2_MissingProductRejected ==
  [][\A r \in Reqs :
       /\ (req[r].pc = "tryon_product" /\ Steps(r)
             /\ ~ProductExists(req[r].product_id)) =>
            /\ req'[r].pc = "done"
            /\ req'[r].resp.code = IF oidOk(req[r].product_id) THEN 404 ELSE 400
            /\ UNCHANGED store
       /\ (req[r].pc = "idle" /\ Ends(r, "tryon")) =>
            /\ req'[r].resp.code = 401
            /\ UNCHANGED store]_vars

C2_Witness ==
  \E r \in Reqs :
    /\ req[r].pc = "done" /\ req[r].op = "tryon"
    /\ req[r].resp.code = 404
    /\ oidOk(req[r].product_id) /\ ~ProductExists(req[r].product_id)

\* ---- C3 ----
C3_Step(r) ==
  /\ (req[r].pc = "tryon_insert" /\ Steps(r) /\ env.FAL_LIVE /\ ~env.FAL_KEY) =>
       req'[r].pc = "tryon_failed"
  /\ (req[r].pc = "tryon_failed" /\ Steps(r)) =>
       /\ req'[r].pc = "done"
       /\ req'[r].resp.code = 502
       /\ tryonsession'[oid(req[r].session_id)].status = "failed"
       /\ tryonsession'[oid(req[r].session_id)].message.len > 0
  /\ (req[r].pc = "idle" /\ Ends(r, "get_session") /\ oidOk(req'[r].get_id)
        /\ oid(req'[r].get_id) \in 1..Len(tryonsession)) =>
       /\ req'[r].resp.code = HTTP_OK
       /\ req'[r].resp.status = tryonsession[oid(req'[r].get_id)].status
       /\ req'[r].resp.message = tryonsession[oid(req'[r].get_id)].message

\* C3: in live mode a request whose try block raised (FAL_KEY missing, transport
\* error, timeout, non-200 status, unusable payload) is on the failure path; its
\* next step records status=failed with a non-empty message on its own session and
\* ends with 502; a failed session is never changed again, and get_session returns
\* the stored status and message.
C3_UpstreamFailureRecorded ==
  /\ [](\A r \in Reqs : req[r].e # NoMsg => (env.FAL_LIVE /\ req[r].pc = "tryon_failed"))
  /\ [][/\ \A r \in Reqs : C3_Step(r)
        /\ \A i \in 1..Len(tryonsession) :
             tryonsession[i].status = "failed" => tryonsession'[i] = tryonsession[i]]_vars

C3_Witness ==
  \E r \in Reqs :
    /\ req[r].pc = "done" /\ req[r].op = "get_session"
    /\ req[r].resp.code = HTTP_OK
    /\ req[r].resp.status = "failed"
    /\ req[r].resp.message.len = MSG_LIMIT

\* ---- C4 ----
\* C4: a session is inserted with status=processing; every update of a session is
\* made by a request finishing its own session, finds it in processing and leaves
\* it completed or failed; a completed or failed session never changes again; no
\* session ever holds status queued.
C4_SessionLifecycle ==
  /\ [](\A i \in 1..Len(tryonsession) :
          tryonsession[i].status \in {"processing"} \cup Terminal)
  /\ [][/\ Len(tryonsession') >= Len(tryonsession)
        /\ \A i \in 1..Len(tryonsession') :
             IF i > Len(tryonsession)
             THEN tryonsession'[i].status = "processing"
             ELSE /\ tryonsession[i].status \in Terminal =>
                       tryonsession'[i] = tryonsession[i]
                  /\ tryonsession'[i] # tryonsession[i] =>
                       /\ tryonsession[i].status = "processing"
                       /\ tryonsession'[i].status \in Terminal
        /\ \A r \in Reqs :
             (req[r].pc \in {"tryon_failed", "tryon_completed"} /\ Steps(r)) =>
               tryonsession[oid(req[r].session_id)].status = "processing"]_vars

C4_Witness ==
  \E i, j \in 1..Len(tryonsession) :
    tryonsession[i].status = "completed" /\ tryonsession[j].status = "failed"

\* ---- C5 ----
\* C5 as stated: with TRYON_REQUIRE_API_KEY true, a try-on request that supplies
\* no x-api-key has ended with 401 once its key check is over, and owns no session.
C5_RequiredKeyEnforced ==
  \A r \in Reqs :
    (env.TRYON_REQUIRE_API_KEY /\ req[r].op = "tryon" /\ req[r].x_api_key = None) =>
      /\ req[r].pc = "done"
      /\ req[r].resp.code = 401

\* ---- C6 ----
\* the apikey documents with active=true whose key is exactly x_api_key
ActiveKeysEqual(x_api_key) ==
  {i \in 1..Len(apikey) : apikey[i].key = x_api_key /\ apikey[i].active}

\* C6 as stated: a try-on request that supplies an x-api-key equal to the key of
\* no active apikey record at the key check fails with 401 and creates no session.
C6_SuppliedKeyMustBeActive ==
  [][\A r \in Reqs :
       (req[r].pc = "idle" /\ req'[r].op = "tryon" /\ req'[r].x_api_key # None
          /\ ActiveKeysEqual(req'[r].x_api_key) = {}) =>
         /\ req'[r].pc = "done"
         /\ req'[r].resp.code = 401
         /\ tryonsession' = tryonsession]_vars

\* C6, amended: a try-on request that supplies a non-empty x-api-key equal to the
\* key of no active apikey record at the key check (a key of no record, or a
\* revoked key) ends there with 401 and the store unchanged, whatever
\* TRYON_REQUIRE_API_KEY is; an empty x-api-key is treated as no key.
C6_NonEmptyKeyMustBeActive ==
  [][\A r \in Reqs :
       (req[r].pc = "idle" /\ req'[r].op = "tryon" /\ req'[r].x_api_key # None
          /\ req'[r].x_api_key # EMPTY
          /\ ActiveKeysEqual(req'[r].x_api_key) = {}) =>
         /\ req'[r].pc = "done"
         /\ req'[r].resp.code = 401
         /\ UNCHANGED store]_vars

C6_Witness ==
  \E r \in Reqs :
    /\ req[r].pc = "done" /\ req[r].op = "tryon" /\ req[r].resp.code = 401
    /\ \E i \in 1..Len(apikey) : apikey[i].key = req[r].x_api_key /\ ~apikey[i].active

\* ---- C7 ----
\* the caller's own key that key_id names, as a set (empty: none)
OwnKey(q) ==
  {i \in 1..Len(apikey) :
     /\ oidOk(q.key_id) /\ i = oid(q.key_id)
     /\ apikey[i].organization_id = user[q.current_user].organization_id}

C7_Revoked(r) ==
  /\ req'[r].resp.code = HTTP_OK
  /\ req'[r].resp.status = "revoked"
  /\ Len(apikey') = Len(apikey)
  /\ \A i \in 1..Len(apikey) :
       IF i \in OwnKey(req[r])
       THEN apikey'[i] = [apikey[i] EXCEPT !.active = FALSE, !.updated_at = "now"]
       ELSE apikey'[i] = apikey[i]
  /\ UNCHANGED <<organization, user, product, tryonsession>>

\* C7 as stated: revoke by an authenticated user fails with 404 and changes no
\* apikey record when the id matches no record or a record of another
\* organization; otherwise it sets that record's active to false and changes no
\* other record.
C7_RevokeForeignIs404 ==
  [][\A r \in Reqs :
       (req[r].pc = "revoke_update" /\ Steps(r)) =>
         /\ req'[r].pc = "done"
         /\ IF OwnKey(req[r]) = {}
            THEN req'[r].resp.code = 404 /\ UNCHANGED store
            ELSE C7_Revoked(r)]_vars

\* C7, amended: as stated, except that an id that does not parse as an internal id
\* fails with 400 (Invalid id) instead of 404, again changing nothing.
C7_RevokeOwnKeyOnly ==
  [][\A r \in Reqs :
       (req[r].pc = "revoke_update" /\ Steps(r)) =>
         /\ req'[r].pc = "done"
         /\ IF OwnKey(req[r]) = {}
            THEN /\ req'[r].resp.code = IF oidOk(req[r].key_id) THEN 404 ELSE 400
                 /\ UNCHANGED store
            ELSE C7_Revoked(r)]_vars

\* a revoke of another organization's key has been answered 404, the key still
\* active, and a revoke of an own key has succeeded
C7_Witness ==
  /\ \E r \in Reqs :
       /\ req[r].pc = "done" /\ req[r].op = "revoke" /\ req[r].resp.code = 404
       /\ oidOk(req[r].key_id) /\ oid(req[r].key_id) \in 1..Len(apikey)
       /\ apikey[oid(req[r].key_id)].active
       /\ apikey[oid(req[r].key_id)].organization_id
            # user[req[r].current_user].organization_id
  /\ \E i \in 1..Len(apikey) : ~apikey[i].active

\* ---- C8 ----
EmailTaken(email) == \E i \in 1..Len(user) : user[i].email = email

\* C8: a signup whose email belongs to a stored User at the uniqueness check ends
\* there with 409, and the step leaves the organization, user and apikey
\* collections (the whole store) unchanged.
C8_DuplicateEmailConflict ==
  [][\A r \in Reqs :
       (req[r].pc = "idle" /\ req'[r].op = "signup" /\ EmailTaken(req'[r].email)) =>
         /\ req'[r].pc = "done"
         /\ req'[r].resp.code = 409
         /\ UNCHANGED store]_vars

C8_Witness ==
  \E r \in Reqs :
    /\ req[r].pc = "done" /\ req[r].op = "signup" /\ req[r].resp.code = 409
    /\ EmailTaken(req[r].email)

\* ---- C9 ----
\* C9 as stated: no two User records have the same email, in any interleaving of
\* concurrent signups.
C9_EmailsUnique ==
  \A i, j \in 1..Len(user) : user[i].email = user[j].email => i = j

\* ---- C10 ----
\* C10 as stated: no two Organization records have the same slug.
C10_SlugsUnique ==
  \A i, j \in 1..Len(organization) :
    organization[i].slug = organization[j].slug => i = j

\* ---- C11 ----
\* the endpoints behind Depends(get_current_user)
BearerOps == {"me", "get_org", "list_api_keys", "create_api_key", "revoke"}

\* C11 as stated: any two requests that failed on the bearer-token path (whatever
\* the cause: no Authorization header, a header that is no 'Bearer <token>', an
\* invalid or expired token, a token without a subject or of no stored user) were
\* answered 401 with the same detail.
C11_BearerFailuresIdentical ==
  \A r1, r2 \in Reqs :
    (/\ req[r1].pc = "done" /\ req[r1].op \in BearerOps /\ req[r1].resp.code = 401
     /\ req[r2].pc = "done" /\ req[r2].op \in BearerOps /\ req[r2].resp.code = 401) =>
      req[r1].resp.detail = req[r2].resp.detail

\* ---- C12 ----
\* the stored users that email and password are the credentials of
UsersWith(email, password) ==
  {i \in 1..Len(user) :
     user[i].email = email /\ user[i].password_hash = <<"bcrypt", password>>}

\* C12 as stated: a login with the email and the correct password of a stored
\* user returns a token whose sub is that user's id and whose org is that user's
\* organization_id; a login with a wrong password is answered 401 with the same
\* response whether or not the email is stored; login never changes the store.
C12_LoginContract ==
  [][\A r \in Reqs :
       (req[r].pc = "idle" /\ Ends(r, "login")) =>
         LET email == req'[r].email
             password == req'[r].password IN
         /\ \A i \in UsersWith(email, password) :
              /\ req'[r].resp.code = HTTP_OK
              /\ req'[r].resp.access_token.sub = IdStr(i)
              /\ req'[r].resp.access_token.org = user[i].organization_id
         /\ UsersWith(email, password) = {} =>
              req'[r].resp = HTTPException(401, Str("Invalid credentials", 19))
         /\ UNCHANGED store]_vars

\* ---- C13 ----
C13_Step(r) ==
  /\ (req[r].pc = "idle" /\ req'[r].op = "signup" /\ ~EmailTaken(req'[r].email)) =>
       /\ req'[r].pc = "signup_org"
       /\ UNCHANGED store
  /\ (req[r].pc = "signup_org" /\ Steps(r)) =>
       /\ req'[r].pc = "signup_user"
       /\ Len(organization') = Len(organization) + 1
       /\ SubSeq(organization', 1, Len(organization)) = organization
       /\ req'[r].org_id = IdStr(Len(organization'))
       /\ UNCHANGED <<user, apikey, product, tryonsession>>
  /\ (req[r].pc = "signup_user" /\ Steps(r)) =>
       /\ req'[r].pc = "signup_key"
       /\ Len(user') = Len(user) + 1
       /\ SubSeq(user', 1, Len(user)) = user
       /\ user'[Len(user')].role = "admin"
       /\ user'[Len(user')].email = req[r].email
       /\ user'[Len(user')].organization_id = req[r].org_id
       /\ req'[r].user_id = IdStr(Len(user'))
       /\ req'[r].org_id = req[r].org_id
       /\ UNCHANGED <<organization, apikey, product, tryonsession>>
  /\ (req[r].pc = "signup_key" /\ Steps(r)) =>
       /\ req'[r].pc = "done"
       /\ Len(apikey') = Len(apikey) + 1
       /\ SubSeq(apikey', 1, Len(apikey)) = apikey
       /\ apikey'[Len(apikey')].active
       /\ apikey'[Len(apikey')].organization_id = req[r].org_id
       /\ req'[r].resp.code = HTTP_OK
       /\ req'[r].resp.access_token.sub = req[r].user_id
       /\ req'[r].resp.access_token.org = req[r].org_id
       /\ req'[r].resp.access_token.exp > now
       /\ req'[r].resp.access_token \in tokens'
       /\ UNCHANGED <<organization, user, product, tryonsession>>
  /\ (req[r].pc = "idle" /\ Ends(r, "me") /\ req'[r].authorization.scheme = "bearer"
        /\ req'[r].authorization.token \in tokens
        /\ req'[r].authorization.token.exp > now) =>
       LET t == req'[r].authorization.token IN
       /\ req'[r].resp.code = HTTP_OK
       /\ req'[r].resp.id = t.sub
       /\ req'[r].resp.role = "admin"
       /\ req'[r].resp.organization_id = t.org
       /\ req'[r].resp.email = user[oid(t.sub)].email
       /\ UNCHANGED store

\* C13: a signup whose email belongs to no stored User at the uniqueness check
\* goes on, without blocking, to insert exactly one Organization, then one User
\* with role=admin and that organization's id, then one active ApiKey of that
\* organization, and ends with 200 and a token whose sub is the new user's id and
\* whose org is the new organization's id; an issued token presented to GET /v1/me
\* before it expires is answered 200 with the id of its sub, role=admin and the
\* organization_id of its org.
C13_SignupThenMe ==
  /\ [](\A r \in Reqs :
          /\ req[r].pc = "signup_org" => ENABLED SignupOrg(r)
          /\ req[r].pc = "signup_user" =>
               /\ ENABLED SignupUser(r)
               /\ oid(req[r].org_id) \in 1..Len(organization)
          /\ req[r].pc = "signup_key" =>
               /\ ENABLED SignupKey(r)
               /\ oid(req[r].user_id) \in 1..Len(user)
               /\ user[oid(req[r].user_id)].organization_id = req[r].org_id)
  /\ [][\A r \in Reqs : C13_Step(r)]_vars

\* a token issued at time 0 was presented to /v1/me later, before its expiry,
\* and resolved to an admin
C13_Witness ==
  \E r \in Reqs :
    /\ req[r].pc = "done" /\ req[r].op = "me" /\ req[r].resp.code = HTTP_OK
    /\ req[r].resp.role = "admin"
    /\ req[r].authorization.token.exp = JWT_EXP_MIN
    /\ now > 0

\* ---- C14 ----
\* the handlers of GET endpoints
GetOps ==
  {"root", "test", "me", "get_org", "list_api_keys", "list_products", "get_product",
   "list_sessions", "get_session"}

\* the response of a get_session call made when the session was completed or failed
C14_TerminalGet(q) ==
  /\ q.pc = "done" /\ q.op = "get_session" /\ q.resp.code = HTTP_OK
  /\ q.resp.status \in Terminal

\* C14: no step of a GET handler changes the store; a get_session response that
\* shows a completed or failed session shows the status, result_url and message
\* the store still holds, so any two such responses for one session id are
\* identical, whatever ran between the two calls.
C14_GetsAreReadOnly ==
  /\ [](\A r1, r2 \in Reqs :
          (C14_TerminalGet(req[r1]) /\ C14_TerminalGet(req[r2])
             /\ req[r1].get_id = req[r2].get_id) =>
            /\ req[r1].resp.status = req[r2].resp.status
            /\ req[r1].resp.result_url = req[r2].resp.result_url
            /\ req[r1].resp.message = req[r2].resp.message)
  /\ [](\A r \in Reqs :
          C14_TerminalGet(req[r]) =>
            /\ req[r].resp.status = tryonsession[oid(req[r].get_id)].status
            /\ req[r].resp.result_url = tryonsession[oid(req[r].get_id)].result_url
            /\ req[r].resp.message = tryonsession[oid(req[r].get_id)].message)
  /\ [][\A r \in Reqs :
          (Steps(r) /\ req'[r].op \in GetOps) => UNCHANGED store]_vars

\* the same failed session was fetched twice, the second time after another
\* session had been created and completed
C14_Witness ==
  /\ \A r \in Reqs : C14_TerminalGet(req[r]) /\ req[r].get_id = IdStr(1)
                     /\ req[r].resp.status = "failed"
  /\ Len(tryonsession) = 2
  /\ tryonsession[2].status = "completed"

\* ---- C15 ----
\* the stored session that the response of q describes
C15_Described(q, sessions) ==
  /\ oidOk(q.resp.id) /\ oid(q.resp.id) \in 1..Len(sessions)
  /\ sessions[oid(q.resp.id)].status = "completed"
  /\ sessions[oid(q.resp.id)].result_url = q.resp.result_url
  /\ sessions[oid(q.resp.id)].message = q.resp.message

\* C15: at the step that produces the response of a try-on request, a 200 says
\* status=completed and the stored session of the returned id is completed with
\* the returned result_url and message; a 502 leaves the request's session failed;
\* a request that created a session is answered 200 or 502 only, its session
\* completed or failed; and the session a held 200 describes stays as described.
C15_TerminalBeforeResponse ==
  /\ [](\A r \in Reqs :
          (req[r].pc = "done" /\ req[r].op = "tryon" /\ req[r].resp.code = HTTP_OK) =>
            C15_Described(req[r], tryonsession))
  /\ [][\A r \in Reqs :
          Ends(r, "tryon") =>
            /\ req'[r].resp.code = HTTP_OK =>
                 /\ req'[r].resp.status = "completed"
                 /\ req'[r].resp.id = req[r].session_id
                 /\ C15_Described(req'[r], tryonsession')
            /\ req'[r].resp.code = 502 =>
                 /\ oidOk(req[r].session_id)
                 /\ tryonsession'[oid(req[r].session_id)].status = "failed"
            /\ req[r].session_id # NoId =>
                 /\ req'[r].resp.code \in {HTTP_OK, 502}
                 /\ tryonsession'[oid(req[r].session_id)].status \in Terminal]_vars

\* one request was answered 200 without a result_url, another 502, and the store
\* holds a completed and a failed session
C15_Witness ==
  /\ \E r \in Reqs :
       /\ req[r].pc = "done" /\ req[r].op = "tryon" /\ req[r].resp.code = HTTP_OK
       /\ req[r].resp.result_url = None
  /\ \E r \in Reqs :
       /\ req[r].pc = "done" /\ req[r].op = "tryon" /\ req[r].resp.code = 502
  /\ \E i \in 1..Len(tryonsession) : tryonsession[i].status = "failed"

\* ---- C16 ----
\* C16: every session that is stored with status=processing is eventually stored
\* with status completed or failed.
C16_EverySessionTerminates ==
  \A i \in 1..MaxSessions :
    (Len(tryonsession) >= i /\ tryonsession[i].status = "processing")
      ~> (Len(tryonsession) >= i /\ tryonsession[i].status \in Terminal)

\* a session that was processing while its request waited for the provider has
\* been recorded failed after a timeout
C16_Witness ==
  /\ \E r \in Reqs :
       /\ req[r].pc = "done" /\ req[r].op = "tryon" /\ req[r].resp.code = 502
       /\ req[r].resp.detail.tag = "HTTPSConnectionPool: Read timed out."
  /\ \E i \in 1..Len(tryonsession) :
       /\ tryonsession[i].status = "failed"
       /\ tryonsession[i].message.tag = "HTTPSConnectionPool: Read timed out."

\* ---- C17 ----
\* C17: a try-on request has made no provider call before the upstream step and
\* one after it; it makes none in sandbox mode and none in live mode without
\* FAL_KEY; a request answered 200 or 502 has made exactly one call in live mode
\* with FAL_KEY and none otherwise, and a request rejected earlier none; a failed
\* call is followed by the 502, never by another call.
C17_AtMostOneUpstreamCall ==
  /\ [](\A r \in Reqs :
          /\ req[r].calls \in {0, 1}
          /\ req[r].calls = 1 => (env.FAL_LIVE /\ env.FAL_KEY)
          /\ req[r].pc = "tryon_upstream" => req[r].calls = 0
          /\ (req[r].pc = "done" /\ req[r].op = "tryon") =>
               req[r].calls = IF /\ req[r].resp.code \in {HTTP_OK, 502}
                                 /\ env.FAL_LIVE /\ env.FAL_KEY
                              THEN 1 ELSE 0)
  /\ [][\A r \in Reqs :
          /\ (req[r].pc = "tryon_upstream" /\ Steps(r)) =>
               /\ req'[r].pc \in {"tryon_failed", "tryon_completed"}
               /\ req'[r].calls = 1
          /\ (req[r].pc = "tryon_failed" /\ Steps(r)) =>
               /\ req'[r].pc = "done"
               /\ req'[r].resp.code = 502
               /\ req'[r].calls = req[r].calls]_vars

\* a request whose single provider call failed has been answered 502, and a
\* request answered 200 made one call
C17_Witness ==
  /\ \E r \in Reqs :
       /\ req[r].pc = "done" /\ req[r].op = "tryon" /\ req[r].resp.code = 502
       /\ req[r].calls = 1
  /\ \E r \in Reqs :
       /\ req[r].pc = "done" /\ req[r].op = "tryon" /\ req[r].resp.code = HTTP_OK
       /\ req[r].calls = 1

\* ---- C18 ----
\* the fields request q is about to write to its session
C18_Written(q) ==
  IF q.pc = "tryon_failed"
  THEN [status |-> "failed", message |-> Truncate(q.e, MSG_LIMIT)]
  ELSE [status |-> "completed", message |-> q.message]

\* C18: the requests in flight own distinct sessions; a request's session_id is
\* the id of the session its own insert created; and whenever a stored session
\* changes, the step is the failure update or the final update of the request
\* that owns it, the status, result_url and message written are that request's,
\* and no other session changes.
C18_OwnSessionOnly ==
  /\ [](\A r1, r2 \in Reqs :
          (r1 # r2 /\ req[r1].session_id # NoId) =>
            req[r1].session_id # req[r2].session_id)
  /\ [][/\ \A r \in Reqs :
             (req[r].pc = "tryon_insert" /\ Steps(r)) =>
               /\ Len(tryonsession') = Len(tryonsession) + 1
               /\ SubSeq(tryonsession', 1, Len(tryonsession)) = tryonsession
               /\ req'[r].session_id = IdStr(Len(tryonsession'))
        /\ \A r \in Reqs :
             (req[r].session_id # NoId /\ req'[r].pc # "done") =>
               req'[r].session_id = req[r].session_id
        /\ \A i \in 1..Len(tryonsession) :
             tryonsession'[i] # tryonsession[i] =>
               \E r \in Reqs :
                 /\ Steps(r)
                 /\ req[r].session_id = IdStr(i)
                 /\ req[r].pc \in {"tryon_failed", "tryon_completed"}
                 /\ tryonsession'[i].status = C18_Written(req[r]).status
                 /\ tryonsession'[i].message = C18_Written(req[r]).message
                 /\ req[r].pc = "tryon_completed" =>
                      tryonsession'[i].result_url = req[r].result_url
                 /\ \A j \in 1..Len(tryonsession) :
                      j # i => tryonsession'[j] = tryonsession[j]]_vars

\* two requests ran interleaved on different products: the one that inserted
\* second has already recorded its failure, the one that inserted first is still
\* about to complete its own session
C18_Witness ==
  \E r1, r2 \in Reqs :
    /\ req[r1].pc = "tryon_completed" /\ req[r1].session_id = IdStr(1)
    /\ req[r2].pc = "done" /\ req[r2].op = "tryon" /\ req[r2].resp.code = 502
    /\ Len(tryonsession) = 2
    /\ tryonsession[1].status = "processing"
    /\ tryonsession[2].status = "failed"
    /\ tryonsession[1].product_id # tryonsession[2].product_id

\* ---- C19 ----
\* C19: no step removes or reorders an apikey record or changes its key,
\* organization, label or scopes; the only change a record undergoes is made by
\* a revoke of a user of its organization and leaves active=false; an inactive
\* record stays inactive; and a revoke of an own, already inactive key is
\* answered 200 like the first.
C19_ApiKeysMonotone ==
  [][/\ Len(apikey') >= Len(apikey)
     /\ \A i \in 1..Len(apikey) :
          /\ apikey'[i].key = apikey[i].key
          /\ apikey'[i].organization_id = apikey[i].organization_id
          /\ apikey'[i].label = apikey[i].label
          /\ apikey'[i].scopes = apikey[i].scopes
          /\ ~apikey[i].active => ~apikey'[i].active
          /\ apikey'[i] # apikey[i] =>
               /\ ~apikey'[i].active
               /\ \E r \in Reqs :
                    /\ req[r].pc = "revoke_update" /\ Steps(r)
                    /\ OwnKey(req[r]) = {i}
     /\ \A r \in Reqs :
          (req[r].pc = "revoke_update" /\ Steps(r) /\ OwnKey(req[r]) # {}) =>
            /\ req'[r].resp.code = HTTP_OK
            /\ \A i \in OwnKey(req[r]) : ~apikey'[i].active]_vars

\* two revokes of the same own key have both been answered 200, the key is
\* inactive, and a key created later is active
C19_Witness ==
  /\ \A r \in Reqs :
       /\ req[r].pc = "done" /\ req[r].op = "revoke" /\ req[r].resp.code = HTTP_OK
       /\ req[r].key_id = IdStr(1)
  /\ ~apikey[1].active
  /\ \E i \in 1..Len(apikey) : apikey[i].active /\ apikey[i].label = "ci"

\* ---- C20 ----
\* id is the id of a document of collection
C20_Refers(id, collection) == oidOk(id) /\ oid(id) \in 1..Len(collection)

\* C20: in every reachable state, between any two store operations of any
\* handlers, every User and every ApiKey has the organization_id of a stored
\* Organization and every TryOnSession has the product_id of a stored Product.
C20_ReferentialIntegrity ==
  /\ \A i \in 1..Len(user) : C20_Refers(user[i].organization_id, organization)
  /\ \A i \in 1..Len(apikey) : C20_Refers(apikey[i].organization_id, organization)
  /\ \A i \in 1..Len(tryonsession) : C20_Refers(tryonsession[i].product_id, product)

\* a signup is between its user insert and its key insert while a try-on request
\* is between its session insert and its final update, and a created key exists
C20_Witness ==
  /\ \E r \in Reqs : req[r].pc = "signup_key"
  /\ \E r \in Reqs : req[r].pc = "tryon_completed"
  /\ Len(user) = 2 /\ Len(apikey) = 2 /\ Len(tryonsession) >= 1
  /\ \E i \in 1..Len(apikey) : apikey[i].label = "ci"

====
